---- MODULE Spec2Model ----
(***************************************************************************)
(* Model of Backend/app.py: the /detect endpoint (multi-scale inference    *)
(* followed by non-maximum suppression) and the helper apply_nms.          *)
(*                                                                         *)
(* Scores, confidences and IoU thresholds are integers in hundredths       *)
(* (0.4 is 40, 0.5 is 50); box coordinates are integer pixels.  These      *)
(* stand for values a float32 tensor holds exactly, as every score and     *)
(* coordinate the handler reads from the detector's tensors is, so that    *)
(* float(...) and torch.tensor(...) convert them without rounding.  The    *)
(* thresholds used (0.25, 0.5, 1.0) and the IoU values of the boxes used   *)
(* are exact in binary too; inter / union is compared with a threshold by  *)
(* cross-multiplication.                                                   *)
(***************************************************************************)
EXTENDS Integers, Sequences, FiniteSets, TLC

(* ------------------------------------------------------------------ *)
(* Program constants                                                    *)
(* ------------------------------------------------------------------ *)
CONFIDENCE_THRESHOLD == 40

IOU_THRESHOLD == 50

scales == <<640, 960, 1280>>

(* ------------------------------------------------------------------ *)
(* Bounds of the model                                                  *)
(* ------------------------------------------------------------------ *)
MaxLen == 3

Labels == {"cat", "dog"}

ScoreValues == {50, 70, 90}

Thresholds == {25, 50, 100}

Box(x1, y1, x2, y2) == [xmin |-> x1, ymin |-> y1, xmax |-> x2, ymax |-> y2]

(* The objects the inputs are drawn from: a box with the class given to  *)
(* it.  The first three boxes overlap pairwise with IoU 1/2, 1/2 and     *)
(* 1/4; the last one has zero area.                                      *)
ObjectPool ==
    { [label |-> "cat", box |-> Box(0, 0, 2, 2)],
      [label |-> "dog", box |-> Box(0, 0, 2, 1)],
      [label |-> "cat", box |-> Box(0, 0, 1, 1)],
      [label |-> "dog", box |-> Box(1, 1, 1, 1)] }

DetectionPool ==
    {[label |-> o.label, score |-> s, box |-> o.box] : o \in ObjectPool, s \in ScoreValues}

(* ------------------------------------------------------------------ *)
(* torchvision.ops.nms as called at line 35: boxes are visited in       *)
(* descending score order (stable), and a visited, unsuppressed box     *)
(* suppresses every later box whose IoU with it is GREATER THAN the     *)
(* threshold.                                                           *)
(* ------------------------------------------------------------------ *)
Max(a, b) == IF a >= b THEN a ELSE b

Min(a, b) == IF a <= b THEN a ELSE b

Area(b) == (b[3] - b[1]) * (b[4] - b[2])

Inter(a, b) ==
    LET w == Max(0, Min(a[3], b[3]) - Max(a[1], b[1]))
        h == Max(0, Min(a[4], b[4]) - Max(a[2], b[2]))
    IN  w * h

UnionNoSubtract(a, b) == Area(a) + Area(b)

Union(a, b) == Area(a) + Area(b) - Inter(a, b)

(* ovr > iou_threshold, with ovr = inter / union.  A zero union makes   *)
(* ovr a NaN, which compares false; 0 * 100 > thr * 0 is false as well. *)
OvrAtLeast(a, b, thr) == Union(a, b) > 0 /\ Inter(a, b) * 100 >= thr * Union(a, b)

OvrExceeds(a, b, thr) == Inter(a, b) * 100 > thr * Union(a, b)

(* Insert index i into the descending order 'ord' behind every index    *)
(* whose score is >= scores[i]: a stable descending sort.               *)
RECURSIVE InsertDesc(_, _, _)
InsertDesc(ord, i, scores) ==
    IF ord = <<>> THEN <<i>>
    ELSE IF scores[Head(ord)] >= scores[i]
         THEN <<Head(ord)>> \o InsertDesc(Tail(ord), i, scores)
         ELSE <<i>> \o ord

RECURSIVE SortPrefix(_, _)
SortPrefix(scores, n) ==
    IF n = 0 THEN <<>> ELSE InsertDesc(SortPrefix(scores, n - 1), n, scores)

InputOrder(scores) == [i \in 1 .. Len(scores) |-> i]

argsort(scores) == SortPrefix(scores, Len(scores))

RECURSIVE ScanLastKept(_, _, _, _)
ScanLastKept(ord, kept, boxes, thr) ==
    IF ord = <<>> THEN kept
    ELSE LET j == Head(ord)
             suppressed == kept # <<>> /\ OvrExceeds(boxes[kept[Len(kept)]], boxes[j], thr)
         IN  ScanLastKept(Tail(ord), IF suppressed THEN kept ELSE Append(kept, j), boxes, thr)

(* The scan over the sorted order: 'kept' are the indices kept so far. *)
RECURSIVE Scan(_, _, _, _)
Scan(ord, kept, boxes, thr) ==
    IF ord = <<>> THEN kept
    ELSE LET j == Head(ord)
             suppressed == \E k \in 1 .. Len(kept) : OvrExceeds(boxes[kept[k]], boxes[j], thr)
         IN  Scan(Tail(ord), IF suppressed THEN kept ELSE Append(kept, j), boxes, thr)

nms(boxes, scores, thr) == Scan(argsort(scores), <<>>, boxes, thr)

(* ------------------------------------------------------------------ *)
(* apply_nms                                                            *)
(* ------------------------------------------------------------------ *)
LabelIndex(l) == IF l = "cat" THEN 0 ELSE 1

boxes_per_class(ds) ==
    [i \in 1 .. Len(ds) |->
        LET off == 10 * LabelIndex(ds[i].label)
        IN  <<ds[i].box.xmin + off, ds[i].box.ymin + off,
              ds[i].box.xmax + off, ds[i].box.ymax + off>>]

boxes_of(ds) ==
    [i \in 1 .. Len(ds) |->
        <<ds[i].box.xmin, ds[i].box.ymin, ds[i].box.xmax, ds[i].box.ymax>>]

scores_of(ds) == [i \in 1 .. Len(ds) |-> ds[i].score]

nms_keep(ds, iou_threshold) ==
    IF ds = <<>> THEN <<>> ELSE nms(boxes_of(ds), scores_of(ds), iou_threshold)

gather_by_rank(ds, kp) == [k \in 1 .. Len(kp) |-> ds[k]]

gather(ds, kp) == [k \in 1 .. Len(kp) |-> ds[kp[k]]]

apply_nms(ds, iou_threshold) == gather(ds, nms_keep(ds, iou_threshold))

(* ------------------------------------------------------------------ *)
(* The /detect handler.  Each request runs one invocation of detect();  *)
(* its local variables live in the invocation's frame.  The handler     *)
(* yields to the event loop only at 'await file.read()'; from its       *)
(* resumption until it has ended it owns the event loop thread ('owner').*)
(* calls, outputs and nms_args record what the running invocation has   *)
(* done: the detector calls, their outcomes, the arguments of apply_nms. *)
(* ------------------------------------------------------------------ *)
Requests == {"r1", "r2"}

MaxRaw == 1

(* Uploaded files: two decodable images and bytes that are no image. *)
Uploads ==
    { [id |-> 1, kind |-> "image"], [id |-> 2, kind |-> "image"], [id |-> 3, kind |-> "junk"] }

NoFile == [id |-> 0, kind |-> "none"]

NoFrame == [live |-> FALSE]

NoResponse == [kind |-> "none"]

InvalidImage == [kind |-> "error", error |-> "Invalid image"]

ServerError == [kind |-> "exception"]

NoOwner == "none"

Raised == [kind |-> "raise", results |-> <<>>]

Results(rs) == [kind |-> "ok", results |-> rs]

(* model = YOLO("./model/best2.pt"); names is the model's class vocabulary. *)
YOLO(path) == [weights |-> path, names |-> [c \in {0, 1} |-> IF c = 0 THEN "cat" ELSE "dog"]]

(* What the detector can report on an image: per image two objects whose *)
(* boxes have IoU exactly 1/2, one of them reported with a confidence    *)
(* below or exactly at the confidence threshold.                         *)
RawPool(id) ==
    LET off == 100 * id
    IN  { [cls |-> 0, conf |-> CONFIDENCE_THRESHOLD - 10, xyxy |-> <<off, 0, off + 4, 4>>],
          [cls |-> 0, conf |-> CONFIDENCE_THRESHOLD, xyxy |-> <<off, 0, off + 4, 4>>],
          [cls |-> 1, conf |-> 90, xyxy |-> <<off, 0, off + 4, 2>>] }

(* model(image_bgr, imgsz=sz): a list of raw boxes, or an exception. *)
DetectorOutcomes(img) ==
    {Raised} \cup {Results(rs) : rs \in UNION {[1 .. n -> RawPool(img.id)] : n \in 0 .. MaxRaw}}

(* Image.open(BytesIO(contents)).convert("RGB") and np.array(image). *)
ImageOpen(c) == [id |-> c.id, order |-> "RGB"]

(* cv2.cvtColor(image_np, cv2.COLOR_RGB2BGR) *)
cvtColor(img) == [img EXCEPT !.order = IF @ = "RGB" THEN "BGR" ELSE "RGB"]

PassesAbove(score) == score > CONFIDENCE_THRESHOLD

PassesConfidence(score) == score >= CONFIDENCE_THRESHOLD

(* Lines 59-73: the Detections appended for one call's results. *)
RECURSIVE Emit(_, _)
Emit(results, m) ==
    IF results = <<>> THEN <<>>
    ELSE LET b == Head(results)
         IN  (IF PassesConfidence(b.conf)
              THEN << [label |-> m.names[b.cls],
                       score |-> b.conf,
                       box |-> [xmin |-> b.xyxy[1], ymin |-> b.xyxy[2],
                                xmax |-> b.xyxy[3], ymax |-> b.xyxy[4]]] >>
              ELSE <<>>) \o Emit(Tail(results), m)

(* Lines 42-54 on the bytes read: the handler returns the error payload, *)
(* or enters the loop over the scales with an empty list.                *)
ResumeStepUncaught(c) ==
    IF c.kind # "image"
    THEN [ended |-> TRUE, response |-> ServerError, frame |-> NoFrame]
    ELSE [ended |-> FALSE, response |-> NoResponse,
          frame |-> [live |-> TRUE, contents |-> c, image_bgr |-> cvtColor(ImageOpen(c)),
                     detections |-> <<>>, i |-> 1]]

ResumeStep(c) ==
    IF c.kind # "image"
    THEN [ended |-> TRUE, response |-> InvalidImage, frame |-> NoFrame]
    ELSE [ended |-> FALSE, response |-> NoResponse,
          frame |-> [live |-> TRUE, contents |-> c, image_bgr |-> cvtColor(ImageOpen(c)),
                     detections |-> <<>>, i |-> 1]]

(* Lines 57-73 for one scale: an exception of the detector leaves the    *)
(* handler; otherwise the results are filtered and appended.             *)
InferStepSkip(fr, out, m) ==
    IF out = Raised
    THEN [ended |-> FALSE, response |-> NoResponse, frame |-> [fr EXCEPT !.i = @ + 1]]
    ELSE [ended |-> FALSE, response |-> NoResponse,
          frame |-> [fr EXCEPT !.detections = @ \o Emit(out.results, m), !.i = @ + 1]]

InferStep(fr, out, m) ==
    IF out = Raised
    THEN [ended |-> TRUE, response |-> ServerError, frame |-> NoFrame]
    ELSE [ended |-> FALSE, response |-> NoResponse,
          frame |-> [fr EXCEPT !.detections = @ \o Emit(out.results, m), !.i = @ + 1]]

(* Lines 76-77: the frame ends with the return. *)
ReturnKeepingFrame(fr) ==
    [ended |-> TRUE,
     response |-> [kind |-> "list", body |-> apply_nms(fr.detections, IOU_THRESHOLD)],
     frame |-> fr]

ReturnStep(fr) ==
    [ended |-> TRUE,
     response |-> [kind |-> "list", body |-> apply_nms(fr.detections, IOU_THRESHOLD)],
     frame |-> NoFrame]

VARIABLES model, pc, file, frames, response, owner, calls, outputs, nms_args

reqvars == <<model, pc, file, frames, response, owner, calls, outputs, nms_args>>

ReqInit ==
    /\ model = YOLO("./model/best2.pt")
    /\ pc = [r \in Requests |-> "idle"]
    /\ file = [r \in Requests |-> NoFile]
    /\ frames = [r \in Requests |-> NoFrame]
    /\ response = [r \in Requests |-> NoResponse]
    /\ owner = NoOwner
    /\ calls = [r \in Requests |-> <<>>]
    /\ outputs = [r \in Requests |-> <<>>]
    /\ nms_args = [r \in Requests |-> <<>>]

(* A POST /detect arrives: detect(file) starts and awaits file.read(). *)
Receive(r) ==
    /\ pc[r] = "idle"
    /\ \E f \in Uploads : file' = [file EXCEPT ![r] = f]
    /\ pc' = [pc EXCEPT ![r] = "reading"]
    /\ UNCHANGED <<model, frames, response, owner, calls, outputs, nms_args>>

(* The read completes and the handler resumes: lines 42-56. *)
Resume(r) ==
    /\ pc[r] = "reading"
    /\ owner = NoOwner
    /\ LET st == ResumeStep(file[r])
       IN  /\ frames' = [frames EXCEPT ![r] = st.frame]
           /\ response' = [response EXCEPT ![r] = st.response]
           /\ pc' = [pc EXCEPT ![r] = IF st.ended THEN "ended" ELSE "loop"]
    /\ owner' = r
    /\ UNCHANGED <<model, file, calls, outputs, nms_args>>

(* One iteration of 'for sz in scales': lines 57-73. *)
Infer(r) ==
    /\ pc[r] = "loop"
    /\ frames[r].i <= Len(scales)
    /\ \E out \in DetectorOutcomes(frames[r].image_bgr) :
          LET st == InferStep(frames[r], out, model)
          IN  /\ calls' = [calls EXCEPT ![r] =
                              Append(@, [image |-> frames[r].image_bgr, imgsz |-> scales[frames[r].i]])]
              /\ outputs' = [outputs EXCEPT ![r] = Append(@, out)]
              /\ frames' = [frames EXCEPT ![r] = st.frame]
              /\ response' = [response EXCEPT ![r] = st.response]
              /\ pc' = [pc EXCEPT ![r] = IF st.ended THEN "ended" ELSE "loop"]
    /\ UNCHANGED <<model, file, owner, nms_args>>

(* After the loop: apply_nms and the return, lines 76-77. *)
Suppress(r) ==
    /\ pc[r] = "loop"
    /\ frames[r].i > Len(scales)
    /\ LET st == ReturnStep(frames[r])
       IN  /\ nms_args' = [nms_args EXCEPT ![r] = Append(@, frames[r].detections)]
           /\ frames' = [frames EXCEPT ![r] = st.frame]
           /\ response' = [response EXCEPT ![r] = st.response]
           /\ pc' = [pc EXCEPT ![r] = "ended"]
    /\ UNCHANGED <<model, file, owner, calls, outputs>>

(* The handler has ended (returned or raised) and the server starts to   *)
(* write the response: it awaits the transport, so the event loop is     *)
(* free for another handler.  The invocation's history ends here.        *)
Respond(r) ==
    /\ pc[r] = "ended"
    /\ pc' = [pc EXCEPT ![r] = "responding"]
    /\ calls' = [calls EXCEPT ![r] = <<>>]
    /\ outputs' = [outputs EXCEPT ![r] = <<>>]
    /\ nms_args' = [nms_args EXCEPT ![r] = <<>>]
    /\ owner' = NoOwner
    /\ UNCHANGED <<model, file, frames, response>>

(* The response has been written; the request is over. *)
Close(r) ==
    /\ pc[r] = "responding"
    /\ pc' = [pc EXCEPT ![r] = "idle"]
    /\ file' = [file EXCEPT ![r] = NoFile]
    /\ response' = [response EXCEPT ![r] = NoResponse]
    /\ UNCHANGED <<model, frames, owner, calls, outputs, nms_args>>

(* ------------------------------------------------------------------ *)
(* State of a direct call of apply_nms                                  *)
(* ------------------------------------------------------------------ *)
VARIABLES call_pc, call_detections, call_iou_threshold, keep, returned

nmsvars == <<call_pc, call_detections, call_iou_threshold, keep, returned>>

NmsInit ==
    /\ call_pc = "args"
    /\ call_detections = <<>>
    /\ call_iou_threshold = IOU_THRESHOLD
    /\ keep = <<>>
    /\ returned = <<>>

(* The caller builds the argument list. *)
AddDetection ==
    /\ call_pc = "args"
    /\ Len(call_detections) < MaxLen
    /\ \E d \in DetectionPool : call_detections' = Append(call_detections, d)
    /\ UNCHANGED <<call_pc, call_iou_threshold, keep, returned>>

(* apply_nms(detections, iou_threshold) runs to its return. *)
CallApplyNms ==
    /\ call_pc = "args"
    /\ \E thr \in Thresholds :
          /\ call_iou_threshold' = thr
          /\ keep' = nms_keep(call_detections, thr)
          /\ returned' = apply_nms(call_detections, thr)
    /\ call_pc' = "returned"
    /\ UNCHANGED call_detections

vars == <<reqvars, nmsvars>>

Init == ReqInit /\ NmsInit

Next ==
    \/ \E r \in Requests : Receive(r) /\ UNCHANGED nmsvars
    \/ \E r \in Requests : Resume(r) /\ UNCHANGED nmsvars
    \/ \E r \in Requests : Infer(r) /\ UNCHANGED nmsvars
    \/ \E r \in Requests : Suppress(r) /\ UNCHANGED nmsvars
    \/ \E r \in Requests : Respond(r) /\ UNCHANGED nmsvars
    \/ \E r \in Requests : Close(r) /\ UNCHANGED nmsvars

Spec == Init /\ [][Next]_vars

NmsNext ==
    \/ AddDetection /\ UNCHANGED reqvars
    \/ CallApplyNms /\ UNCHANGED reqvars

SpecNms == Init /\ [][NmsNext]_vars

(* ------------------------------------------------------------------ *)
(* Vocabulary of the properties: IoU of two Detections, computed from   *)
(* the records' fields.  A zero union counts as IoU 0.                  *)
(* ------------------------------------------------------------------ *)
Positions == 1 .. Len(call_detections)

KeptSet == {keep[k] : k \in 1 .. Len(keep)}

Returned == call_pc = "returned"

BoxArea(b) == (b.xmax - b.xmin) * (b.ymax - b.ymin)

OverlapArea(a, b) ==
    LET w == Min(a.xmax, b.xmax) - Max(a.xmin, b.xmin)
        h == Min(a.ymax, b.ymax) - Max(a.ymin, b.ymin)
    IN  IF w > 0 /\ h > 0 THEN w * h ELSE 0

UnionArea(a, b) == BoxArea(a) + BoxArea(b) - OverlapArea(a, b)

IoUGe(d, e, thr) ==
    UnionArea(d.box, e.box) > 0 /\ OverlapArea(d.box, e.box) * 100 >= thr * UnionArea(d.box, e.box)

IoUGt(d, e, thr) ==
    UnionArea(d.box, e.box) > 0 /\ OverlapArea(d.box, e.box) * 100 > thr * UnionArea(d.box, e.box)

IoUEq(d, e, thr) ==
    UnionArea(d.box, e.box) > 0 /\ OverlapArea(d.box, e.box) * 100 = thr * UnionArea(d.box, e.box)

(* The greedy reference procedure on a set of remaining positions: the  *)
(* set of kept-position sequences it can produce (a tie between highest *)
(* scores may be broken either way).  'ge' selects the comparison that  *)
(* discards: IoU >= thr when TRUE, IoU > thr when FALSE.                *)
RECURSIVE GreedyRuns(_, _, _, _)
GreedyRuns(ds, remaining, thr, ge) ==
    IF remaining = {} THEN {<<>>}
    ELSE UNION {
           LET rest == {j \in remaining \ {i} :
                           ~ (IF ge THEN IoUGe(ds[i], ds[j], thr) ELSE IoUGt(ds[i], ds[j], thr))}
           IN  {<<i>> \o r : r \in GreedyRuns(ds, rest, thr, ge)}
           : i \in {m \in remaining : \A j \in remaining : ds[m].score >= ds[j].score} }

GreedyResults(ds, thr, ge) ==
    {[k \in 1 .. Len(r) |-> ds[r[k]]] : r \in GreedyRuns(ds, 1 .. Len(ds), thr, ge)}

(* C1 (as stated): apply_nms returns a result of the greedy procedure that  *)
(* discards every remaining Detection whose IoU with the taken one is >=    *)
(* the threshold (the empty list for the empty input).                      *)
C1_GreedyGe ==
    Returned => returned \in GreedyResults(call_detections, call_iou_threshold, TRUE)

(* C1 (amended): apply_nms returns a result of the greedy procedure that    *)
(* discards every remaining Detection whose IoU with the taken one is >     *)
(* the threshold; the empty input gives the empty list.                     *)
C1_GreedyGt ==
    Returned => returned \in GreedyResults(call_detections, call_iou_threshold, FALSE)

C1_Witness ==
    /\ Returned
    /\ Len(call_detections) = 3
    /\ Len(returned) = 2
    /\ \E j \in Positions \ KeptSet :
          \E i \in KeptSet : IoUGt(call_detections[i], call_detections[j], call_iou_threshold)

(* C2 (as stated): a Detection whose IoU with a kept, higher-scoring        *)
(* Detection is exactly the threshold is suppressed.                        *)
C2_EqualSuppressed ==
    Returned =>
        \A i \in KeptSet : \A j \in Positions :
            ( /\ call_detections[i].score > call_detections[j].score
              /\ IoUEq(call_detections[i], call_detections[j], call_iou_threshold) )
            => j \notin KeptSet

(* C2 (amended): the comparison is IoU > threshold: every Detection that    *)
(* apply_nms drops has IoU strictly greater than the threshold with a kept  *)
(* Detection of no lower score, so IoU exactly equal to the threshold       *)
(* suppresses nothing.                                                      *)
C2_OnlyStrictSuppresses ==
    Returned =>
        \A j \in Positions \ KeptSet :
            \E i \in KeptSet :
                /\ call_detections[i].score >= call_detections[j].score
                /\ IoUGt(call_detections[i], call_detections[j], call_iou_threshold)

C2_Witness ==
    /\ Returned
    /\ call_iou_threshold = IOU_THRESHOLD
    /\ \E i \in KeptSet : \E j \in KeptSet :
          /\ call_detections[i].score > call_detections[j].score
          /\ IoUEq(call_detections[i], call_detections[j], call_iou_threshold)

(* C3 (as stated): the returned list holds no two distinct Detections with  *)
(* IoU >= the threshold.                                                    *)
C3_NoPairGe ==
    Returned =>
        \A i \in KeptSet : \A j \in KeptSet \ {i} :
            ~ IoUGe(call_detections[i], call_detections[j], call_iou_threshold)

(* C3 (amended): the returned list holds no two distinct Detections with    *)
(* IoU > the threshold, whatever their labels.                              *)
C3_NoPairGt ==
    Returned =>
        \A i \in KeptSet : \A j \in KeptSet \ {i} :
            ~ IoUGt(call_detections[i], call_detections[j], call_iou_threshold)

C3_Witness ==
    /\ Returned
    /\ Len(keep) >= 2
    /\ Len(keep) < Len(call_detections)
    /\ \E i \in KeptSet : \E j \in KeptSet \ {i} :
          call_detections[i].label # call_detections[j].label

Relabel(ds, lab) == [i \in 1 .. Len(ds) |-> [ds[i] EXCEPT !.label = lab[i]]]

LabelBlind ==
    \A lab \in [Positions -> Labels] :
        nms_keep(Relabel(call_detections, lab), call_iou_threshold) = keep

(* C4 (as stated): the kept positions do not depend on the labels, and a    *)
(* lower-scoring Detection whose IoU with a kept higher-scoring Detection   *)
(* reaches the threshold (IoU >= threshold) is discarded whatever the two   *)
(* labels are.                                                              *)
C4_DiscardsReaching ==
    Returned =>
        /\ LabelBlind
        /\ \A i \in KeptSet : \A j \in Positions :
              ( /\ call_detections[i].score > call_detections[j].score
                /\ IoUGe(call_detections[i], call_detections[j], call_iou_threshold) )
              => j \notin KeptSet

(* C4 (amended): the kept positions depend on scores and boxes only:        *)
(* relabelling the inputs in any way leaves them unchanged, and a           *)
(* lower-scoring Detection whose IoU with a kept higher-scoring Detection   *)
(* exceeds the threshold is discarded whatever the two labels are.          *)
C4_ClassAgnostic ==
    Returned =>
        /\ LabelBlind
        /\ \A i \in KeptSet : \A j \in Positions :
              ( /\ call_detections[i].score > call_detections[j].score
                /\ IoUGt(call_detections[i], call_detections[j], call_iou_threshold) )
              => j \notin KeptSet

C4_Witness ==
    /\ Returned
    /\ \E i \in KeptSet : \E j \in Positions \ KeptSet :
          /\ call_detections[i].label # call_detections[j].label
          /\ call_detections[i].score > call_detections[j].score
          /\ IoUGt(call_detections[i], call_detections[j], call_iou_threshold)
          /\ \A k \in KeptSet \ {i} :
                ~ IoUGt(call_detections[k], call_detections[j], call_iou_threshold)

(* C7: apply_nms only filters: the k-th returned Detection is the input at  *)
(* the k-th kept position, unchanged; no position is kept twice; and the    *)
(* call leaves the input list as it was.                                    *)
C7_Step ==
    (call_pc = "args" /\ call_pc' = "returned") =>
        /\ call_detections' = call_detections
        /\ Len(returned') = Len(keep')
        /\ \A k \in 1 .. Len(keep') :
              /\ keep'[k] \in 1 .. Len(call_detections)
              /\ returned'[k] = call_detections[keep'[k]]
        /\ \A k \in 1 .. Len(keep') : \A m \in 1 .. Len(keep') : keep'[k] = keep'[m] => k = m

C7_OnlyFilters == [][C7_Step]_vars

C7_Witness ==
    /\ Returned
    /\ Len(call_detections) = 3
    /\ Len(returned) = 2
    /\ keep[1] > keep[2]

(* C9: with pairwise distinct scores, every permutation of the input gives  *)
(* the same set of kept Detections.                                         *)
DistinctScores(ds) ==
    \A i \in 1 .. Len(ds) : \A j \in 1 .. Len(ds) : ds[i].score = ds[j].score => i = j

Perms(n) == {p \in [1 .. n -> 1 .. n] : \A i \in 1 .. n : \A j \in 1 .. n : p[i] = p[j] => i = j}

Range(s) == {s[k] : k \in 1 .. Len(s)}

C9_OrderIndependent ==
    (Returned /\ DistinctScores(call_detections)) =>
        \A p \in Perms(Len(call_detections)) :
            Range(apply_nms([i \in Positions |-> call_detections[p[i]]], call_iou_threshold))
                = Range(returned)

C9_Witness ==
    /\ Returned
    /\ DistinctScores(call_detections)
    /\ Len(call_detections) = 3
    /\ Len(returned) = 2
    /\ call_detections[1].score < call_detections[2].score
    /\ call_detections[2].score < call_detections[3].score

(* ------------------------------------------------------------------ *)
(* Properties of the /detect handler                                    *)
(* ------------------------------------------------------------------ *)
AsDetection(b) ==
    [label |-> IF b.cls = 0 THEN "cat" ELSE "dog",
     score |-> b.conf,
     box |-> Box(b.xyxy[1], b.xyxy[2], b.xyxy[3], b.xyxy[4])]

Qualifying(results) ==
    LET sel == SelectSeq(results, LAMBDA b : b.conf >= 40)
    IN  [k \in 1 .. Len(sel) |-> AsDetection(sel[k])]

RECURSIVE Flatten(_)
Flatten(lists) == IF lists = <<>> THEN <<>> ELSE Head(lists) \o Flatten(Tail(lists))

Succeeded(r) == pc[r] = "ended" /\ response[r].kind = "list"

(* C5: a request whose bytes are no image ends with the payload             *)
(* {"error": "Invalid image"}; the detector is never invoked for it and    *)
(* apply_nms is never called.                                               *)
C5_InvalidImage ==
    \A r \in Requests :
        file[r].kind = "junk" =>
            /\ calls[r] = <<>>
            /\ outputs[r] = <<>>
            /\ nms_args[r] = <<>>
            /\ pc[r] \in {"reading", "ended", "responding"}
            /\ pc[r] \in {"ended", "responding"} =>
                  response[r] = [kind |-> "error", error |-> "Invalid image"]

C5_Witness ==
    \E r \in Requests :
        /\ pc[r] = "ended"
        /\ file[r].kind = "junk"
        /\ response[r].kind = "error"

(* C6: a successful request invoked the detector exactly once per           *)
(* resolution, 640 then 960 then 1280, and handed apply_nms exactly the     *)
(* concatenation, in that order, of the raw detections with confidence      *)
(* >= 0.4, as records of label, score and box only.                         *)
C6_MultiScale ==
    \A r \in Requests :
        Succeeded(r) =>
            /\ [k \in 1 .. Len(calls[r]) |-> calls[r][k].imgsz] = <<640, 960, 1280>>
            /\ Len(outputs[r]) = 3
            /\ nms_args[r] =
                  << Flatten([k \in 1 .. 3 |-> Qualifying(outputs[r][k].results)]) >>
            /\ \A k \in 1 .. Len(nms_args[r][1]) :
                  DOMAIN nms_args[r][1][k] = {"label", "score", "box"}

C6_Witness ==
    \E r \in Requests :
        /\ Succeeded(r)
        /\ \E k \in 1 .. 3 : \E m \in 1 .. Len(outputs[r][k].results) :
              outputs[r][k].results[m].conf = 40
        /\ \E k \in 1 .. 3 : \E m \in 1 .. Len(outputs[r][k].results) :
              outputs[r][k].results[m].conf < 40
        /\ Len(nms_args[r][1]) = 2

(* C8: when the detector fails at a scale, that call is the request's last: *)
(* the scales before it ran once each in order, nothing ran after it, the   *)
(* request ended with the server error and no Detection, and apply_nms was  *)
(* not called.                                                              *)
C8_DetectorFailure ==
    \A r \in Requests : \A k \in 1 .. Len(outputs[r]) :
        outputs[r][k].kind = "raise" =>
            /\ k = Len(outputs[r])
            /\ Len(calls[r]) = k
            /\ \A m \in 1 .. k : calls[r][m].imgsz = <<640, 960, 1280>>[m]
            /\ pc[r] = "ended"
            /\ response[r] = [kind |-> "exception"]
            /\ frames[r] = [live |-> FALSE]
            /\ nms_args[r] = <<>>

C8_Witness ==
    \E r \in Requests :
        /\ Len(outputs[r]) = 3
        /\ outputs[r][3].kind = "raise"
        /\ Qualifying(outputs[r][1].results) # <<>>
        /\ pc[r] = "ended"

(* C10: every Detection of a response, and every detector call of a         *)
(* request, comes from the request's own upload; a request that has ended   *)
(* holds no frame, and an idle one no response; the model handle is the one *)
(* loaded at startup.                                                       *)
(* The objects of image 'id' lie in the columns 100*id .. 100*id + 4. *)
DerivedFrom(d, id) ==
    /\ d.label \in {"cat", "dog"}
    /\ d.score >= 40
    /\ d.box.xmin = 100 * id
    /\ d.box.xmax = 100 * id + 4
    /\ d.box.ymin = 0
    /\ d.box.ymax \in 1 .. 4

C10_RequestLocal ==
    /\ model = [weights |-> "./model/best2.pt",
                names |-> [c \in {0, 1} |-> IF c = 0 THEN "cat" ELSE "dog"]]
    /\ \A r \in Requests :
          /\ response[r].kind = "list" =>
                \A k \in 1 .. Len(response[r].body) :
                    DerivedFrom(response[r].body[k], file[r].id)
          /\ \A k \in 1 .. Len(calls[r]) : calls[r][k].image.id = file[r].id
          /\ pc[r] \in {"idle", "reading", "ended", "responding"} => frames[r] = [live |-> FALSE]
          /\ pc[r] = "idle" => response[r] = [kind |-> "none"]

C10_Witness ==
    \E r \in Requests : \E q \in Requests \ {r} :
        /\ pc[r] = "responding"
        /\ response[r].kind = "list"
        /\ response[r].body # <<>>
        /\ pc[q] = "loop"
        /\ frames[q].detections # <<>>
        /\ file[q].id # file[r].id

====
